---------------------------- MODULE Spec2Model ----------------------------
(***************************************************************************)
(* A model of src/spf2acl/spf.py: the SPF record value tree (SPF,          *)
(* Directive, the mechanisms, the modifiers, Domain, Macro, Query), its    *)
(* text rendering (__str__) and its macro expansion (expand).              *)
(*                                                                         *)
(* A Python str is modelled as a sequence of one-character strings, so     *)
(* that escaping, splitting and the length cap act on characters.  A       *)
(* Python list object lives in `heap` under an address, so that two        *)
(* references to one list are two copies of one address.  An optional      *)
(* value (None or x) is the sequence <<>> or <<x>>.                        *)
(***************************************************************************)
EXTENDS Integers, Sequences, FiniteSets, TLC

VARIABLES
    heap,     \* address -> contents of the list object at that address
    obj,      \* the node the caller has constructed
    held,     \* the addresses of the lists the caller holds a reference to
    given,    \* the sequence the caller gave the constructor of obj
    result    \* the last call and its outcome

vars == <<heap, obj, held, given, result>>

-----------------------------------------------------------------------------
(* Outcomes of a call, and strings.                                        *)

Return(v) == [kind |-> "return", value |-> v]

Raise(e) == [kind |-> "raise", exc |-> e]

NoObject == [cls |-> "None"]

NoCall == [call |-> "none"]

\* "".join(ss), the list split in halves
RECURSIVE Concat(_)
Concat(ss) ==
    IF ss = <<>> THEN <<>>
    ELSE IF Len(ss) = 1 THEN ss[1]
    ELSE Concat(SubSeq(ss, 1, Len(ss) \div 2))
         \o Concat(SubSeq(ss, (Len(ss) \div 2) + 1, Len(ss)))

\* sep.join(ss)
Join(sep, ss) ==
    IF ss = <<>> THEN <<>>
    ELSE Concat([k \in 1..(2 * Len(ss) - 1) |->
                    IF k % 2 = 1 THEN ss[(k + 1) \div 2] ELSE sep])

Digit == <<"0", "1", "2", "3", "4", "5", "6", "7", "8", "9">>

HexDigit ==
    <<"0", "1", "2", "3", "4", "5", "6", "7", "8", "9",
      "a", "b", "c", "d", "e", "f">>

RECURSIVE DecNat(_)
DecNat(n) == IF n < 10 THEN <<Digit[n + 1]>>
             ELSE DecNat(n \div 10) \o <<Digit[(n % 10) + 1]>>

\* "%d" % n
Dec(n) == IF n < 0 THEN <<"-">> \o DecNat(-n) ELSE DecNat(n)

\* "%x" % n
RECURSIVE Hex(_)
Hex(n) == IF n < 16 THEN <<HexDigit[n + 1]>>
          ELSE Hex(n \div 16) \o <<HexDigit[(n % 16) + 1]>>

\* "%04x" % n, for a 16-bit word
Hex4(n) ==
    <<HexDigit[(n \div 4096) + 1], HexDigit[((n \div 256) % 16) + 1],
      HexDigit[((n \div 16) % 16) + 1], HexDigit[(n % 16) + 1]>>

\* c * n, for a one-character c
Repeat(c, n) == [i \in 1..n |-> c]

-----------------------------------------------------------------------------
(* netaddr addresses.  An address is [version, bits]: its value as a bit   *)
(* sequence, most significant bit first, 32 bits wide for version 4 and    *)
(* 128 for version 6 (the values do not fit TLC's integers).               *)

Width(version) == IF version = 4 THEN 32 ELSE 128

WordSize(version) == IF version = 4 THEN 8 ELSE 16

RECURSIVE WordBits(_, _)
WordBits(w, n) ==
    IF n = 0 THEN <<>> ELSE WordBits(w \div 2, n - 1) \o <<w % 2>>

RECURSIVE BitsWord(_)
BitsWord(bs) ==
    IF bs = <<>> THEN 0 ELSE 2 * BitsWord(SubSeq(bs, 1, Len(bs) - 1)) + bs[Len(bs)]

\* the address whose words (octets, or 16-bit groups) are ws
IPAddress(version, ws) ==
    [version |-> version,
     bits |-> Concat([i \in 1..Len(ws) |-> WordBits(ws[i], WordSize(version))])]

Words(addr) ==
    LET n == WordSize(addr.version)
    IN  [i \in 1..(Len(addr.bits) \div n) |->
            BitsWord(SubSeq(addr.bits, (i - 1) * n + 1, i * n))]

\* netaddr.IPNetwork(network): the address as written and the prefix length
netaddr_IPNetwork(version, ws, prefixlen) ==
    [ip |-> IPAddress(version, ws), prefixlen |-> prefixlen]

\* netaddr.IPNetwork.cidr: the host bits cleared
netaddr_cidr(net) ==
    [ip |-> [version |-> net.ip.version,
             bits |-> [i \in 1..Len(net.ip.bits) |->
                          IF i <= net.prefixlen THEN net.ip.bits[i] ELSE 0]],
     prefixlen |-> net.prefixlen]

\* netaddr.IPAddress.is_netmask: ones followed by zeros
is_netmask(addr) ==
    \A i \in 1..(Len(addr.bits) - 1) : addr.bits[i] = 0 => addr.bits[i + 1] = 0

\* netaddr.IPAddress.netmask_bits: the number of one bits of a netmask, and
\* the width of the address for any other address
netmask_bits(addr) ==
    IF ~is_netmask(addr) THEN Len(addr.bits)
    ELSE Cardinality({i \in 1..Len(addr.bits) : addr.bits[i] = 1})

\* str(IPAddress), version 4: dotted decimal
ipv4_str(addr) == Join(<<".">>, [i \in 1..4 |-> Dec(Words(addr)[i])])

\* the zero run of the words ws that starts at i: its length
RECURSIVE ZeroRun(_, _)
ZeroRun(ws, i) ==
    IF i > Len(ws) \/ ws[i] # 0 THEN 0 ELSE 1 + ZeroRun(ws, i + 1)

\* str(IPAddress), version 6 (inet_ntop): the leftmost longest run of two or
\* more zero groups becomes "::", the groups are written in hex with no
\* leading zeros.  (The dotted tail inet_ntop writes for an IPv4-mapped
\* address is not modelled; no address of IPv6Addresses has one.)
ipv6_str(addr) ==
    LET ws   == Words(addr)
        best == CHOOSE i \in 1..8 :
                    /\ \A j \in 1..8 : ZeroRun(ws, j) <= ZeroRun(ws, i)
                    /\ \A j \in 1..(i - 1) : ZeroRun(ws, j) < ZeroRun(ws, i)
        len  == ZeroRun(ws, best)
        hex(lo, hi) == Join(<<":">>, [k \in 1..(hi - lo + 1) |-> Hex(ws[lo + k - 1])])
    IN  IF len < 2 THEN hex(1, 8)
        ELSE hex(1, best - 1) \o <<":", ":">> \o hex(best + len, 8)

\* str(IPAddress)
IPAddress_str(addr) == IF addr.version = 4 THEN ipv4_str(addr) ELSE ipv6_str(addr)

\* IPAddress.format(netaddr.ipv6_verbose): eight groups of four hex digits
ipv6_verbose(addr) == Join(<<":">>, [i \in 1..8 |-> Hex4(Words(addr)[i])])

-----------------------------------------------------------------------------
(* class IPNetwork(Mechanism)                                              *)

IPNetwork_network(self) == netaddr_cidr(self.network)

IPNetwork_version(self) == IPNetwork_network(self).ip.version

IPNetwork_address(self) == IPNetwork_network(self).ip

IPNetwork_prefix_length(self) == IPNetwork_network(self).prefixlen

IPNetwork_str(self) ==
    LET suffix == IF IPNetwork_prefix_length(self) # netmask_bits(IPNetwork_address(self))
                  THEN <<"/">> \o Dec(IPNetwork_prefix_length(self))
                  ELSE <<>>
    IN  <<"i", "p">> \o Dec(IPNetwork_version(self)) \o <<":">>
        \o IPAddress_str(IPNetwork_address(self)) \o suffix

-----------------------------------------------------------------------------
(* class Query                                                             *)

postmaster_at == <<"p", "o", "s", "t", "m", "a", "s", "t", "e", "r", "@">>

\* x in s, for a one-character x
Contains(s, x) == \E i \in 1..Len(s) : s[i] = x

\* s.index(x), 0-based, for a one-character x that occurs in s
Index(s, x) == (CHOOSE i \in 1..Len(s) : s[i] = x /\ \A j \in 1..(i - 1) : s[j] # x) - 1

\* s.split(x), for a one-character x
RECURSIVE StrSplit(_, _)
StrSplit(s, x) ==
    IF ~Contains(s, x) THEN <<s>>
    ELSE <<SubSeq(s, 1, Index(s, x))>> \o StrSplit(SubSeq(s, Index(s, x) + 2, Len(s)), x)

Query_init(sender, domain, ip) == [sender |-> sender, domain |-> domain, ip |-> ip]

Query_sender(self) ==
    IF ~Contains(self.sender, "@") THEN postmaster_at \o self.sender ELSE self.sender

\* self.__domain or ...: None and "" are both false
Query_domain(self) ==
    IF self.domain # <<>> /\ self.domain[1] # <<>> THEN self.domain[1]
    ELSE StrSplit(Query_sender(self), "@")[2]

Query_ip(self) == self.ip

-----------------------------------------------------------------------------
(* class Macro                                                             *)

MacroType == {"s", "l", "o", "d", "i", "p", "v", "h"}

\* Macro.__init__: Macro.Type(_type) raises ValueError for any other token;
\* nothing checks length
Macro_init(type, length, reverse, delimiter) ==
    IF type \notin MacroType THEN Raise("ValueError")
    ELSE Return([cls |-> "Macro", type |-> type, length |-> length, reverse |-> reverse,
                 delimiter |-> IF delimiter # <<>> /\ delimiter[1] # <<>>
                               THEN delimiter[1] ELSE <<".">>])

\* bool(x) of an optional integer: None and 0 are false
Truthy(length) == length # <<>> /\ length[1] # 0

Macro_str(self) ==
    <<"%", "{">> \o <<self.type>>
    \o (IF Truthy(self.length) THEN Dec(self.length[1]) ELSE <<>>)
    \o (IF self.reverse THEN <<"r">> ELSE <<>>)
    \o (IF self.delimiter # <<".">> THEN self.delimiter ELSE <<>>)
    \o <<"}">>

AlphaNum ==
    {"a", "b", "c", "d", "e", "f", "g", "h", "i", "j", "k", "l", "m", "n", "o", "p",
     "q", "r", "s", "t", "u", "v", "w", "x", "y", "z",
     "0", "1", "2", "3", "4", "5", "6", "7", "8", "9", "_"}

\* re.escape(c): a backslash before every character that is not a word character
re_escape(c) == IF c \in AlphaNum THEN <<c>> ELSE <<"\\", c>>

\* "|".join(map(re.escape, delimiter)), kept as the list of its alternatives
Pattern(delimiter) == [i \in 1..Len(delimiter) |-> re_escape(delimiter[i])]

\* whether the pattern matches at character c: an alternative is a character,
\* or a backslash and the character it makes literal
Matches(pattern, c) ==
    \E i \in 1..Len(pattern) : pattern[i][Len(pattern[i])] = c

\* re.split(pattern, s): the pieces of s between the matches, the matches
\* found left to right
RECURSIVE re_split(_, _)
re_split(pattern, s) ==
    IF \A i \in 1..Len(s) : ~Matches(pattern, s[i]) THEN <<s>>
    ELSE LET i == CHOOSE i \in 1..Len(s) :
                      Matches(pattern, s[i]) /\ \A j \in 1..(i - 1) : ~Matches(pattern, s[j])
         IN  <<SubSeq(s, 1, i - 1)>> \o re_split(pattern, SubSeq(s, i + 1, Len(s)))

\* list.reverse()
Reverse(l) == [i \in 1..Len(l) |-> l[Len(l) + 1 - i]]

\* l[start:], with Python's rule for a negative or too large start
SliceFrom(l, start) ==
    LET s0 == IF start < 0 THEN start + Len(l) ELSE start
        s1 == IF s0 < 0 THEN 0 ELSE IF s0 > Len(l) THEN Len(l) ELSE s0
    IN  SubSeq(l, s1 + 1, Len(l))

\* the value Macro.expand resolves for the type: <<>> is None (no branch of
\* the if chain is taken for "p" and "h")
Macro_raw(self, query) ==
    CASE self.type = "s" -> <<Query_sender(query)>>
      [] self.type = "l" -> <<StrSplit(Query_sender(query), "@")[1]>>
      [] self.type = "o" -> <<StrSplit(Query_sender(query), "@")[2]>>
      [] self.type = "d" -> <<Query_domain(query)>>
      [] self.type = "i" ->
            IF Query_ip(query).version = 6
            THEN <<Join(<<".">>,
                        LET t == Concat(StrSplit(ipv6_verbose(Query_ip(query)), ":"))
                        IN  [k \in 1..Len(t) |-> <<t[k]>>])>>
            ELSE <<IPAddress_str(Query_ip(query))>>
      [] self.type = "v" ->
            IF Query_ip(query).version = 6 THEN <<<<"i", "p", "6">>>>
            ELSE <<<<"i", "n", "-", "a", "d", "d", "r">>>>
      [] OTHER -> <<>>

\* a bug: the labels cut before they are reversed
Macro_labels_cut_first(self, labels) ==
    LET cut == IF Truthy(self.length) THEN SliceFrom(labels, -self.length[1]) ELSE labels
    IN  IF self.reverse THEN Reverse(cut) ELSE cut

\* the labels a macro keeps: reversed when reverse, cut when length is true
Macro_labels(self, labels) ==
    LET reversed == IF self.reverse THEN Reverse(labels) ELSE labels
    IN  IF Truthy(self.length) THEN SliceFrom(reversed, -self.length[1]) ELSE reversed

\* a bug: result starts as "" and not as None
Macro_expand_empty(self, query) ==
    LET raw == Macro_raw(self, query)
    IN  Return(Join(<<".">>,
                    Macro_labels(self, re_split(Pattern(self.delimiter),
                                                IF raw = <<>> THEN <<>> ELSE raw[1]))))

\* Macro.expand(query); re.split raises TypeError for None
Macro_expand(self, query) ==
    LET raw == Macro_raw(self, query)
    IN  IF raw = <<>> THEN Raise("TypeError")
        ELSE Return(Join(<<".">>,
                         Macro_labels(self, re_split(Pattern(self.delimiter), raw[1]))))

-----------------------------------------------------------------------------
(* class Domain(__Sequence).  A fragment is a str, [cls |-> "str", text],   *)
(* or a Macro.                                                             *)

MaxDomainLength == 253

Lit(text) == [cls |-> "str", text |-> text]

\* whether old occurs in s at 1-based position i
OccursAt(s, old, i) == i + Len(old) - 1 <= Len(s) /\ SubSeq(s, i, i + Len(old) - 1) = old

\* s.replace(old, new): the occurrences of old found left to right, each
\* search starting after the previous occurrence
RECURSIVE Replace(_, _, _)
Replace(s, old, new) ==
    IF \A i \in 1..Len(s) : ~OccursAt(s, old, i) THEN s
    ELSE LET i == CHOOSE i \in 1..Len(s) :
                      OccursAt(s, old, i) /\ \A j \in 1..(i - 1) : ~OccursAt(s, old, j)
         IN  SubSeq(s, 1, i - 1) \o new
             \o Replace(SubSeq(s, i + Len(old), Len(s)), old, new)

\* a bug: the replacement of "%%20" left out
Domain_escape_no_hyphen(text) ==
    Replace(Replace(text, <<"%">>, <<"%", "%">>), <<" ">>, <<"%", "_">>)

\* i.replace("%", "%%").replace("%%20", "%-").replace(" ", "%_")
Domain_escape(text) ==
    Replace(Replace(Replace(text, <<"%">>, <<"%", "%">>),
                    <<"%", "%", "2", "0">>, <<"%", "-">>),
            <<" ">>, <<"%", "_">>)

Domain_str(data) ==
    Concat([k \in 1..Len(data) |->
               IF data[k].cls = "str" THEN Domain_escape(data[k].text)
               ELSE Macro_str(data[k])])

\* the for loop of Domain.expand: the fragments are expanded left to right
\* and the first exception ends the call
RECURSIVE Domain_concat(_, _, _)
Domain_concat(data, query, acc) ==
    IF data = <<>> THEN Return(acc)
    ELSE IF Head(data).cls = "str"
         THEN Domain_concat(Tail(data), query, acc \o Head(data).text)
         ELSE LET e == Macro_expand(Head(data), query)
              IN  IF e.kind = "raise" THEN e
                  ELSE Domain_concat(Tail(data), query, acc \o e.value)

\* a bug: the text cut to its last 253 characters
Domain_strip_truncate(r, n) ==
    IF Len(r) > MaxDomainLength
    THEN [out |-> Return(SubSeq(r, Len(r) - MaxDomainLength + 1, Len(r))), steps |-> 1]
    ELSE [out |-> Return(r), steps |-> n]

\* a bug: the loop left (while len(result) > 253 and "." in result) and the
\* text returned when no "." remains
RECURSIVE Domain_strip_while_dot(_, _)
Domain_strip_while_dot(r, n) ==
    IF Len(r) > MaxDomainLength /\ Contains(r, ".")
    THEN Domain_strip_while_dot(SubSeq(r, Index(r, ".") + 2, Len(r)), n + 1)
    ELSE [out |-> Return(r), steps |-> n]

\* the while loop of Domain.expand, n iterations done: str.index raises
\* ValueError when there is no "."
RECURSIVE Domain_strip(_, _)
Domain_strip(r, n) ==
    IF Len(r) > MaxDomainLength
    THEN IF ~Contains(r, ".") THEN [out |-> Raise("ValueError"), steps |-> n]
         ELSE Domain_strip(SubSeq(r, Index(r, ".") + 2, Len(r)), n + 1)
    ELSE [out |-> Return(r), steps |-> n]

\* Domain.expand(query), with the number of iterations of its while loop
Domain_expand(data, query) ==
    LET e == Domain_concat(data, query, <<>>)
    IN  IF e.kind = "raise" THEN [out |-> e, steps |-> 0]
        ELSE Domain_strip(e.value, 0)

\* a Domain held by a mechanism or a modifier
Domain(data) == [cls |-> "Domain", data |-> data]

-----------------------------------------------------------------------------
(* The mechanisms, the modifiers, Directive and SPF.                       *)

All_str(self) == <<"a", "l", "l">>

\* __DomainMechanism._str and Modifier._str: "%s" % self.domain
DomainMechanism_str(self) == <<":">> \o Domain_str(self.domain.data)

Include_str(self) == <<"i", "n", "c", "l", "u", "d", "e">> \o DomainMechanism_str(self)

Exists_str(self) == <<"e", "x", "i", "s", "t", "s">> \o DomainMechanism_str(self)

DefaultIPv4PrefixLength == 32

DefaultIPv6PrefixLength == 128

\* a bug: the domain counted as given only when it holds a fragment
Cidr_has_domain_nonempty(self) == self.domain # <<>> /\ self.domain[1].data # <<>>

\* bool(self.domain): None is false; a Domain is true whatever it holds,
\* __Sequence defining neither __bool__ nor __len__
Cidr_has_domain(self) == self.domain # <<>>

Cidr_str(self) ==
    (IF Cidr_has_domain(self) THEN <<":">> \o Domain_str(self.domain[1].data) ELSE <<>>)
    \o (IF self.ipv4_prefix_length # DefaultIPv4PrefixLength
        THEN <<"/">> \o Dec(self.ipv4_prefix_length) ELSE <<>>)
    \o (IF self.ipv6_prefix_length # DefaultIPv6PrefixLength
        THEN <<"/", "/">> \o Dec(self.ipv6_prefix_length) ELSE <<>>)

A_str(self) == <<"a">> \o Cidr_str(self)

MX_str(self) == <<"m", "x">> \o Cidr_str(self)

Mechanism_str(self) ==
    CASE self.cls = "All" -> All_str(self)
      [] self.cls = "Include" -> Include_str(self)
      [] self.cls = "Exists" -> Exists_str(self)
      [] self.cls = "A" -> A_str(self)
      [] self.cls = "MX" -> MX_str(self)
      [] self.cls = "IPNetwork" -> IPNetwork_str(self)

Modifier_str(self) == <<"=">> \o Domain_str(self.domain.data)

Redirect_str(self) == <<"r", "e", "d", "i", "r", "e", "c", "t">> \o Modifier_str(self)

Exp_str(self) == <<"e", "x", "p">> \o Modifier_str(self)

QualifierPASS == "+"

Directive_str(self) ==
    (IF self.qualifier # QualifierPASS THEN <<self.qualifier>> ELSE <<>>)
    \o Mechanism_str(self.mechanism)

\* str(x) of a term of an SPF
Term_str(x) ==
    CASE x.cls = "Directive" -> Directive_str(x)
      [] x.cls = "Redirect" -> Redirect_str(x)
      [] x.cls = "Exp" -> Exp_str(x)

SPF_version == <<"s", "p", "f", "1">>

\* a bug: the separator written whether or not there are terms
SPF_str_always_space(terms) ==
    <<"v", "=">> \o SPF_version \o <<" ">>
    \o Join(<<" ">>, [k \in 1..Len(terms) |-> Term_str(terms[k])])

SPF_str(terms) ==
    LET text == <<"v", "=">> \o SPF_version
    IN  IF terms # <<>>
        THEN text \o <<" ">> \o Join(<<" ">>, [k \in 1..Len(terms) |-> Term_str(terms[k])])
        ELSE text

-----------------------------------------------------------------------------
(* class __Sequence.  The constructor copies the list it is given into a   *)
(* new list; the data property (and SPF.terms) returns that list itself.   *)

NoHeap == [caller |-> <<>>, node |-> <<>>]

\* __Sequence.__init__(data): self.__data = list(data)
Sequence_init(cls, data) ==
    /\ heap' = [caller |-> data, node |-> data]
    /\ obj' = [cls |-> cls, data |-> "node"]
    /\ held' = {"caller"}
    /\ given' = data

\* __Sequence.data, SPF.terms: return self.__data
Sequence_data(self) == self.data

-----------------------------------------------------------------------------
(* The values the caller constructs nodes from.                            *)

MaxLength == 3

MaxFragments == 4

MaxText == 4

MaxTerms == 2

\* all sequences over S of length at most n
RECURSIVE SeqUpTo(_, _)
SeqUpTo(S, n) ==
    IF n = 0 THEN {<<>>}
    ELSE LET shorter == SeqUpTo(S, n - 1)
         IN  shorter \cup {Append(s, x) : s \in {t \in shorter : Len(t) = n - 1}, x \in S}

IPv4Addresses ==
    { <<0, 0, 0, 0>>, <<10, 1, 2, 3>>, <<192, 0, 2, 1>>, <<255, 255, 255, 0>>,
      <<255, 255, 255, 255>>, <<128, 0, 0, 0>>, <<255, 0, 255, 0>> }

IPv6Addresses ==
    { <<0, 0, 0, 0, 0, 0, 0, 0>>, <<0, 0, 0, 0, 0, 0, 0, 1>>,
      <<8193, 3512, 0, 0, 0, 0, 0, 1>>, <<65535, 65535, 0, 0, 0, 0, 0, 0>>,
      <<8193, 3512, 0, 1, 0, 0, 2, 3>> }

Addresses(version) == IF version = 4 THEN IPv4Addresses ELSE IPv6Addresses

email_example_com == <<"e", "m", "a", "i", "l", ".", "e", "x", "a", "m", "p", "l", "e", ".", "c", "o", "m">>

Queries ==
    { Query_init(<<"s", "t", "r", "o", "n", "g", "-", "b", "a", "d">> \o <<"@">> \o email_example_com, <<>>,
                 IPAddress(4, <<192, 0, 2, 3>>)),
      Query_init(<<"e", "x", "a", "m", "p", "l", "e", ".", "n", "e", "t">>, <<email_example_com>>,
                 IPAddress(6, <<8193, 3512, 0, 0, 0, 0, 0, 51969>>)),
      Query_init(<<"a", "-", "b", "@", "c", ".", "d">>, << <<>> >>, IPAddress(4, <<10, 1, 2, 3>>)) }

Lengths == {<<>>} \cup {<<n>> : n \in (-1)..MaxLength}

Delimiters == {<<>>, <<<<"-">>>>, <<<<".", "-">>>>, <<<<"+">>>>}

MacroOf(type, length, reverse) == Macro_init(type, length, reverse, <<>>).value

\* the fragments of the Domains that are expanded: a label of 63 characters
\* and its dot, 100 characters with no dot, and macros
ExpandFragments ==
    { Lit(Repeat("a", 63) \o <<".">>), Lit(Repeat("b", 100)),
      MacroOf("d", <<2>>, TRUE), MacroOf("p", <<>>, FALSE) }

\* the texts of the Domains that are rendered
Texts == SeqUpTo({"%", "2", "0", " "}, MaxText)

DomainInputs ==
    SeqUpTo(ExpandFragments, MaxFragments)
    \cup {<<Lit(t)>> : t \in Texts}
    \cup {<<Lit(t), MacroOf("h", <<1>>, TRUE)>> : t \in {u \in Texts : Len(u) <= 1}}

CidrDomains ==
    { <<>>, <<Domain(<<>>)>>, <<Domain(<<Lit(email_example_com)>>)>>,
      <<Domain(<<MacroOf("d", <<>>, FALSE)>>)>> }

IPv4PrefixLengths == {0, 8, 24, 31, 32}

IPv6PrefixLengths == {0, 64, 127, 128}

Terms ==
    { [cls |-> "Directive", qualifier |-> "-", mechanism |-> [cls |-> "All"]],
      [cls |-> "Directive", qualifier |-> "+",
       mechanism |-> [cls |-> "Include", domain |-> Domain(<<Lit(email_example_com)>>)]],
      [cls |-> "Redirect", domain |-> Domain(<<MacroOf("d", <<>>, FALSE)>>)] }

SmallFragments == { Lit(<<"a", ".">>), MacroOf("d", <<>>, FALSE) }

Elements(cls) == IF cls = "SPF" THEN Terms ELSE SmallFragments

-----------------------------------------------------------------------------
(* The caller's calls.  A node is constructed when the caller has none and *)
(* given up by Drop.  result is the outcome of the last call, and NoCall   *)
(* once anything else has happened.                                        *)

NewIPNetwork(version, ws, prefixlen) ==
    /\ obj = NoObject
    /\ obj' = [cls |-> "IPNetwork", network |-> netaddr_IPNetwork(version, ws, prefixlen)]
    /\ result' = NoCall
    /\ UNCHANGED <<heap, held, given>>

StrIPNetwork ==
    /\ obj.cls = "IPNetwork"
    /\ result' = [call |-> "str", out |-> Return(IPNetwork_str(obj))]
    /\ UNCHANGED <<heap, obj, held, given>>

NewCidr(cls, domain, v4, v6) ==
    /\ obj = NoObject
    /\ obj' = [cls |-> cls, domain |-> domain,
               ipv4_prefix_length |-> v4, ipv6_prefix_length |-> v6]
    /\ result' = NoCall
    /\ UNCHANGED <<heap, held, given>>

StrCidr ==
    /\ obj.cls \in {"A", "MX"}
    /\ result' = [call |-> "str", out |-> Return(Mechanism_str(obj))]
    /\ UNCHANGED <<heap, obj, held, given>>

NewMacro(type, length, reverse, delimiter) ==
    /\ obj = NoObject
    /\ LET made == Macro_init(type, length, reverse, delimiter)
       IN  IF made.kind = "raise"
           THEN obj' = obj /\ result' = [call |-> "init", out |-> made]
           ELSE obj' = made.value /\ result' = NoCall
    /\ UNCHANGED <<heap, held, given>>

StrMacro ==
    /\ obj.cls = "Macro"
    /\ result' = [call |-> "str", out |-> Return(Macro_str(obj))]
    /\ UNCHANGED <<heap, obj, held, given>>

ExpandMacro(query) ==
    /\ obj.cls = "Macro"
    /\ result' = [call |-> "expand", query |-> query, out |-> Macro_expand(obj, query)]
    /\ UNCHANGED <<heap, obj, held, given>>

NewSequence(cls, data) ==
    /\ obj = NoObject
    /\ Sequence_init(cls, data)
    /\ result' = NoCall

StrDomain ==
    /\ obj.cls = "Domain"
    /\ result' = [call |-> "str", out |-> Return(Domain_str(heap[obj.data]))]
    /\ UNCHANGED <<heap, obj, held, given>>

ExpandDomain(query) ==
    /\ obj.cls = "Domain"
    /\ LET e == Domain_expand(heap[obj.data], query)
       IN  result' = [call |-> "expand", query |-> query, out |-> e.out, steps |-> e.steps]
    /\ UNCHANGED <<heap, obj, held, given>>

StrSPF ==
    /\ obj.cls = "SPF"
    /\ result' = [call |-> "str", out |-> Return(SPF_str(heap[obj.data]))]
    /\ UNCHANGED <<heap, obj, held, given>>

\* the caller reads obj.data (obj.terms) and keeps what it returns
GetData ==
    /\ obj.cls \in {"SPF", "Domain"}
    /\ held' = held \cup {Sequence_data(obj)}
    /\ result' = NoCall
    /\ UNCHANGED <<heap, obj, given>>

\* the caller appends to a list it holds
ListAppend(a, x) ==
    /\ obj.cls \in {"SPF", "Domain"}
    /\ a \in held
    /\ Len(heap[a]) < MaxTerms
    /\ heap' = [heap EXCEPT ![a] = Append(@, x)]
    /\ result' = NoCall
    /\ UNCHANGED <<obj, held, given>>

\* the caller pops the last item of a list it holds
ListPop(a) ==
    /\ obj.cls \in {"SPF", "Domain"}
    /\ a \in held
    /\ heap[a] # <<>>
    /\ heap' = [heap EXCEPT ![a] = SubSeq(@, 1, Len(@) - 1)]
    /\ result' = NoCall
    /\ UNCHANGED <<obj, held, given>>

Drop ==
    /\ obj # NoObject
    /\ obj' = NoObject
    /\ result' = NoCall
    /\ heap' = NoHeap
    /\ held' = {}
    /\ given' = <<>>

-----------------------------------------------------------------------------

Init ==
    /\ heap = NoHeap
    /\ obj = NoObject
    /\ held = {}
    /\ given = <<>>
    /\ result = NoCall

\* rendering and expansion of the nodes, each on its own
Next ==
    \/ \E version \in {4, 6} : \E ws \in Addresses(version) :
         \E prefixlen \in 0..Width(version) : NewIPNetwork(version, ws, prefixlen)
    \/ StrIPNetwork
    \/ \E cls \in {"A", "MX"}, domain \in CidrDomains,
          v4 \in IPv4PrefixLengths, v6 \in IPv6PrefixLengths : NewCidr(cls, domain, v4, v6)
    \/ StrCidr
    \/ \E type \in MacroType \cup {"x"}, length \in Lengths, reverse \in BOOLEAN,
          delimiter \in Delimiters : NewMacro(type, length, reverse, delimiter)
    \/ StrMacro
    \/ \E query \in Queries : ExpandMacro(query)
    \/ \E data \in DomainInputs : NewSequence("Domain", data)
    \/ StrDomain
    \/ \E query \in Queries : ExpandDomain(query)
    \/ Drop

Spec == Init /\ [][Next]_vars

\* a record or a domain whose lists the caller goes on using
NextSeq ==
    \/ \E cls \in {"SPF", "Domain"} :
         \E data \in SeqUpTo(Elements(cls), MaxTerms) : NewSequence(cls, data)
    \/ GetData
    \/ \E a \in {"caller", "node"} : \E x \in Elements(obj.cls) : ListAppend(a, x)
    \/ \E a \in {"caller", "node"} : ListPop(a)
    \/ StrSPF
    \/ StrDomain
    \/ \E query \in Queries : ExpandDomain(query)
    \/ Drop

SpecSeq == Init /\ [][NextSeq]_vars

-----------------------------------------------------------------------------
(* The claims.                                                             *)

Rendered == result.call = "str" /\ result.out.kind = "return"

\* C1: an IPNetwork renders as "ip4:" or "ip6:", its CIDR base address, and
\* "/" and the prefix length exactly when the prefix length is not 32 (IPv4)
\* or 128 (IPv6).  (Violated: the suffix is decided by netmask_bits.)
C1_SuffixByWidth ==
    (obj.cls = "IPNetwork" /\ Rendered) =>
        LET base == netaddr_cidr(obj.network)
        IN  result.out.value =
                <<"i", "p", IF base.ip.version = 4 THEN "4" ELSE "6", ":">>
                \o IPAddress_str(base.ip)
                \o (IF base.prefixlen # Width(base.ip.version)
                    THEN <<"/">> \o Dec(base.prefixlen) ELSE <<>>)

\* C4: an SPF renders as "v=spf1" when it has no terms, and otherwise its
\* render split at the spaces is "v=spf1" and then the renders of its terms,
\* each once and in list order.
C4_RecordRender ==
    (obj.cls = "SPF" /\ Rendered) =>
        LET terms == heap[obj.data]
        IN  /\ terms = <<>> => result.out.value = <<"v", "=", "s", "p", "f", "1">>
            /\ terms # <<>> =>
                 StrSplit(result.out.value, " ")
                     = <<<<"v", "=", "s", "p", "f", "1">>>> \o [k \in 1..Len(terms) |-> Term_str(terms[k])]

\* C4 witness: a record of two different terms, changed since construction,
\* has been rendered.
C4_Witness ==
    /\ obj.cls = "SPF" /\ Rendered
    /\ Len(heap[obj.data]) = 2
    /\ heap[obj.data][1] # heap[obj.data][2]
    /\ heap[obj.data] # given

\* C5: an A or MX renders as its name, then ":" and the domain iff a domain
\* is given, then "/" and the IPv4 prefix length iff it is not 32, then "//"
\* and the IPv6 prefix length iff it is not 128; the bare name when no domain
\* is given and both prefix lengths are 32 and 128.
C5_CidrRender ==
    (obj.cls \in {"A", "MX"} /\ Rendered) =>
        LET name   == IF obj.cls = "A" THEN <<"a">> ELSE <<"m", "x">>
            domain == IF obj.domain = <<>> THEN <<>>
                      ELSE <<":">> \o Domain_str(obj.domain[1].data)
            v4     == IF obj.ipv4_prefix_length = 32 THEN <<>>
                      ELSE <<"/">> \o Dec(obj.ipv4_prefix_length)
            v6     == IF obj.ipv6_prefix_length = 128 THEN <<>>
                      ELSE <<"/", "/">> \o Dec(obj.ipv6_prefix_length)
        IN  /\ result.out.value = Concat(<<name, domain, v4, v6>>)
            /\ (obj.domain = <<>> /\ obj.ipv4_prefix_length = 32
                  /\ obj.ipv6_prefix_length = 128) => result.out.value = name
            /\ (obj.cls = "A" /\ obj.domain = <<>> /\ obj.ipv4_prefix_length = 24
                  /\ obj.ipv6_prefix_length = 64) => result.out.value = <<"a", "/", "2", "4", "/", "/", "6", "4">>

\* C5 witness: an MX with an empty Domain and both prefix lengths set has
\* been rendered "mx:/24//64".
C5_Witness ==
    /\ obj.cls = "MX" /\ Rendered
    /\ obj.domain = <<Domain(<<>>)>>
    /\ obj.ipv4_prefix_length = 24
    /\ obj.ipv6_prefix_length = 64
    /\ result.out.value = <<"m", "x", ":", "/", "2", "4", "/", "/", "6", "4">>

Expanded == result.call = "expand"

\* the concatenated expansion of the Domain obj for the query of the call
Expansion == Domain_concat(heap[obj.data], result.query, <<>>)

\* the numbers of leading characters whose removal drops whole labels only
\* (none, or all up to and including a "."), and leaves at most 253
FittingCuts(E) ==
    {k \in 0..Len(E) : (k = 0 \/ E[k] = ".") /\ Len(E) - k <= 253}

Least(S) == CHOOSE k \in S : \A j \in S : k <= j

\* C2: when the concatenated expansion E has a "." to cut at, Domain.expand
\* returns E if it has at most 253 characters, and otherwise the longest
\* suffix of E that starts right after a "." and has at most 253 characters.
C2_LongestFittingSuffix ==
    (obj.cls = "Domain" /\ Expanded /\ Expansion.kind = "return"
       /\ FittingCuts(Expansion.value) # {}) =>
        LET E == Expansion.value
        IN  /\ result.out = Return(SubSeq(E, Least(FittingCuts(E)) + 1, Len(E)))
            /\ Len(E) <= 253 => result.out = Return(E)

\* C2 witness: an expansion of more than 253 characters lost two whole
\* labels and something of it was returned.
C2_Witness ==
    /\ obj.cls = "Domain" /\ Expanded /\ Expansion.kind = "return"
    /\ Len(Expansion.value) > 253
    /\ result.out.kind = "return"
    /\ result.steps >= 2
    /\ result.out.value # <<>>

\* C9: when no cut of whole leading labels brings the expansion to 253
\* characters or fewer, Domain.expand raises (ValueError, the spec's
\* LengthOverflow) after at most one stripping step per "." of the expansion;
\* and whatever Domain.expand returns has at most 253 characters and is the
\* expansion or what follows one of its dots.
C9_OverflowRaises ==
    (obj.cls = "Domain" /\ Expanded /\ Expansion.kind = "return") =>
        LET E == Expansion.value
        IN  /\ FittingCuts(E) = {} =>
                 /\ result.out = Raise("ValueError")
                 /\ result.steps <= Cardinality({i \in 1..Len(E) : E[i] = "."})
            /\ result.out.kind = "return" =>
                 /\ Len(result.out.value) <= 253
                 /\ \E k \in 0..Len(E) :
                      /\ k = 0 \/ E[k] = "."
                      /\ result.out.value = SubSeq(E, k + 1, Len(E))

\* C9 witness: an expansion with a "." lost a label, was still too long with
\* no "." left, and the call raised.
C9_Witness ==
    /\ obj.cls = "Domain" /\ Expanded /\ Expansion.kind = "return"
    /\ FittingCuts(Expansion.value) = {}
    /\ Contains(Expansion.value, ".")
    /\ result.out = Raise("ValueError")
    /\ result.steps = 1

\* the labels of raw for the delimiter characters D: the k-th label lies
\* between the (k-1)-th and the k-th delimiter character of raw
LabelsOf(raw, D) ==
    LET seps == {i \in 1..Len(raw) : raw[i] \in D} \cup {0, Len(raw) + 1}
        at(k) == CHOOSE x \in seps : Cardinality({y \in seps : y < x}) = k
    IN  [k \in 1..(Cardinality(seps) - 1) |-> SubSeq(raw, at(k - 1) + 1, at(k) - 1)]

\* C3: for a supported type and a length that is unset or positive,
\* Macro.expand returns the labels of the raw value (split at every delimiter
\* character), reversed when reverse is set, then the last `length` of them
\* when length is set, joined with ".".
C3_MacroExpand ==
    (obj.cls = "Macro" /\ Expanded /\ Macro_raw(obj, result.query) # <<>>
       /\ (obj.length = <<>> \/ obj.length[1] > 0)) =>
        LET raw     == Macro_raw(obj, result.query)[1]
            labels  == LabelsOf(raw, {obj.delimiter[i] : i \in 1..Len(obj.delimiter)})
            n       == Len(labels)
            ordered == IF obj.reverse THEN [k \in 1..n |-> labels[n + 1 - k]] ELSE labels
            m       == IF obj.length = <<>> \/ obj.length[1] > n THEN n ELSE obj.length[1]
            kept    == [k \in 1..m |-> ordered[n - m + k]]
        IN  /\ result.out = Return(Join(<<".">>, kept))
            /\ (obj.delimiter = <<".">> /\ ~obj.reverse /\ obj.length = <<>>)
                 => result.out = Return(raw)
            /\ (obj.type = "d" /\ raw = email_example_com /\ obj.delimiter = <<".">>
                  /\ obj.reverse /\ obj.length = <<2>>)
                 => result.out = Return(<<"e", "x", "a", "m", "p", "l", "e", ".", "e", "m", "a", "i", "l">>)

\* C3 witness: "%{s2r.-}" of strong-bad@email.example.com expanded to
\* "bad@email.strong".
C3_Witness ==
    /\ obj.cls = "Macro" /\ Expanded
    /\ obj.type = "s" /\ obj.delimiter = <<".", "-">> /\ obj.reverse /\ obj.length = <<2>>
    /\ result.out = Return(<<"b", "a", "d", "@", "e", "m", "a", "i", "l", ".", "s", "t", "r", "o", "n", "g">>)

\* C7: a Macro whose length is zero or negative is never expanded to a
\* string.  (Violated: nothing checks length.)
C7_NonPositiveLengthFails ==
    ~(/\ obj.cls = "Macro"
      /\ obj.length # <<>> /\ obj.length[1] <= 0
      /\ Expanded /\ result.out.kind = "return")

\* C8: the expansion of a "p" or "h" macro raises (TypeError, the spec's
\* UnsupportedMacro) for every query and every option, and so does the
\* expansion of every Domain that holds such a macro.
C8_UnsupportedMacroRaises ==
    /\ (obj.cls = "Macro" /\ Expanded /\ obj.type \in {"p", "h"})
         => result.out = Raise("TypeError")
    /\ (obj.cls = "Domain" /\ Expanded
          /\ \E k \in 1..Len(heap[obj.data]) :
               heap[obj.data][k].cls = "Macro" /\ heap[obj.data][k].type \in {"p", "h"})
         => result.out = Raise("TypeError")

\* C8 witness: a Domain of a literal, a "d" macro and a "p" macro was
\* expanded and the call raised.
C8_Witness ==
    /\ obj.cls = "Domain" /\ Expanded
    /\ Len(heap[obj.data]) >= 3
    /\ heap[obj.data][1].cls = "str"
    /\ heap[obj.data][2].cls = "Macro" /\ heap[obj.data][2].type = "d"
    /\ heap[obj.data][3].cls = "Macro" /\ heap[obj.data][3].type = "p"
    /\ result.query.domain = <<>>
    /\ result.out = Raise("TypeError")

\* the render of the fragment x with every "%" doubled, every space written
\* "%_" and every other character kept
CharwiseRender(x) ==
    IF x.cls = "Macro" THEN Macro_str(x)
    ELSE Concat([i \in 1..Len(x.text) |->
                    CASE x.text[i] = "%" -> <<"%", "%">>
                      [] x.text[i] = " " -> <<"%", "_">>
                      [] OTHER -> <<x.text[i]>>])

\* C6 as stated: every literal fragment of a Domain renders character by
\* character, "%" as "%%" and " " as "%_".  (Violated by the text "%20".)
C6_CharwiseEscape ==
    (obj.cls = "Domain" /\ Rendered) =>
        result.out.value
            = Concat([k \in 1..Len(heap[obj.data]) |-> CharwiseRender(heap[obj.data][k])])

\* whether "%20" starts at position i of t
Percent20At(t, i) == i >= 1 /\ OccursAt(t, <<"%", "2", "0">>, i)

\* the render of the fragment x with every "%20" written "%-", every other
\* "%" doubled, every space written "%_" and every other character kept
HyphenRender(x) ==
    IF x.cls = "Macro" THEN Macro_str(x)
    ELSE Concat([i \in 1..Len(x.text) |->
                    CASE Percent20At(x.text, i) -> <<"%", "-">>
                      [] Percent20At(x.text, i - 1) \/ Percent20At(x.text, i - 2) -> <<>>
                      [] x.text[i] = "%" -> <<"%", "%">>
                      [] x.text[i] = " " -> <<"%", "_">>
                      [] OTHER -> <<x.text[i]>>])

\* the text a rendered literal stands for: "%%" is "%", "%_" is " " and
\* "%-" is "%20"
RECURSIVE Decode(_)
Decode(r) ==
    IF ~Contains(r, "%") \/ Index(r, "%") + 2 > Len(r) THEN r
    ELSE LET i == Index(r, "%") + 1
         IN  SubSeq(r, 1, i - 1)
             \o (CASE r[i + 1] = "%" -> <<"%">>
                   [] r[i + 1] = "_" -> <<" ">>
                   [] r[i + 1] = "-" -> <<"%", "2", "0">>
                   [] OTHER -> <<r[i], r[i + 1]>>)
             \o Decode(SubSeq(r, i + 2, Len(r)))

\* C6 amended: every literal fragment renders with each "%20" as "%-", each
\* other "%" as "%%", each space as "%_" and every other character kept, so
\* that the render of a Domain of literals decodes back to its text; a macro
\* fragment renders in its "%{...}" form.
C6_HyphenEscape ==
    (obj.cls = "Domain" /\ Rendered) =>
        LET data == heap[obj.data]
        IN  /\ result.out.value = Concat([k \in 1..Len(data) |-> HyphenRender(data[k])])
            /\ (\A k \in 1..Len(data) : data[k].cls = "str")
                 => Decode(result.out.value) = Concat([k \in 1..Len(data) |-> data[k].text])

\* C6 witness: the literal "%20 " has been rendered "%-%_".
C6_Witness ==
    /\ obj.cls = "Domain" /\ Rendered
    /\ heap[obj.data] = <<Lit(<<"%", "2", "0", " ">>)>>
    /\ result.out.value = <<"%", "-", "%", "_">>

\* C10: the sequence of an SPF or a Domain stays the sequence given to its
\* constructor, and its render the render of that sequence.  (Violated: the
\* data and terms properties hand out the node's own list.)
C10_SequenceImmutable ==
    obj.cls \in {"SPF", "Domain"} =>
        /\ heap[obj.data] = given
        /\ Rendered =>
             result.out.value = (IF obj.cls = "SPF" THEN SPF_str(given) ELSE Domain_str(given))

=============================================================================
